---- MODULE Spec2Model ----
(***************************************************************************)
(* Model of streamlit_app.py: the caption tokenizer                        *)
(* (instagram_sentence_tokenize) and the row expansion (preprocess).       *)
(*                                                                         *)
(* A Python str is a sequence of one-character strings.  A Python value    *)
(* that reaches str() is a record [kind, chars]: kind "str" carries the    *)
(* characters, kind "none" is None, kind "nan" is the float NaN pandas     *)
(* puts in an empty CSV cell, kind "absent" marks a cell of a column the   *)
(* table does not have.                                                    *)
(***************************************************************************)
EXTENDS Integers, Sequences, FiniteSets, TLC

\* ---------------------------------------------------------------- bounds
MaxLen == 4
MaxRows == 3

\* ------------------------------------------------------------ characters
ELLIPSIS == "U+2026"
Terminators == {".", "!", "?", ELLIPSIS}
Whitespace == {" ", "\t"}
Alphabet == {"a"} \cup Whitespace \cup Terminators

StrV(s) == [kind |-> "str", chars |-> s]
NoneV == [kind |-> "none", chars |-> <<>>]
NaNV == [kind |-> "nan", chars |-> <<>>]
AbsentV == [kind |-> "absent", chars |-> <<>>]

\* str(x)
Str(v) ==
  CASE v.kind = "str" -> v.chars
    [] v.kind = "none" -> <<"N", "o", "n", "e">>
    [] v.kind = "nan" -> <<"n", "a", "n">>
    [] OTHER -> <<>>

\* ------------------------------------------------------------- tokenizer
RECURSIVE lstrip(_)
lstrip(s) ==
  IF s = <<>> THEN s
  ELSE IF Head(s) \in Whitespace THEN lstrip(Tail(s)) ELSE s

RECURSIVE rstrip(_)
rstrip(s) ==
  IF s = <<>> THEN s
  ELSE IF s[Len(s)] \in Whitespace THEN rstrip(SubSeq(s, 1, Len(s) - 1)) ELSE s

\* str.strip()
strip(s) == rstrip(lstrip(s))

\* re.sub(r"\s+", " ", s)
RECURSIVE sub_ws(_)
sub_ws(s) ==
  IF s = <<>> THEN <<>>
  ELSE IF Head(s) \in Whitespace THEN <<" ">> \o sub_ws(lstrip(s))
  ELSE <<Head(s)>> \o sub_ws(Tail(s))

\* length of the longest prefix of s made of terminator characters
RECURSIVE RunLen(_)
RunLen(s) ==
  IF s = <<>> THEN 0
  ELSE IF Head(s) \in Terminators THEN 1 + RunLen(Tail(s)) ELSE 0

\* what group 1 of ([.!?...])+ holds after matching run: the group is inside
\* the repetition, so it keeps the character of the last iteration only
Group1(run) == <<run[Len(run)]>>

\* _SENTENCE_END_RE.split(text): text before each match, then the match's
\* group 1, and the remainder of the text last
RECURSIVE SplitFrom(_, _)
SplitFrom(s, chunk) ==
  IF s = <<>> THEN <<chunk>>
  ELSE IF Head(s) \in Terminators
       THEN LET n == RunLen(s)
            IN  <<chunk, Group1(SubSeq(s, 1, n))>>
                  \o SplitFrom(SubSeq(s, n + 1, Len(s)), <<>>)
       ELSE SplitFrom(Tail(s), Append(chunk, Head(s)))

split(text) == SplitFrom(text, <<>>)

\* Sentence without the strip() of line 53
Sentence_NoStrip(parts, i) ==
  parts[i] \o (IF i + 1 <= Len(parts) THEN parts[i + 1] ELSE <<>>)

\* one pass of the body of "for i in range(0, len(parts), 2)"; i is 1-based
Sentence(parts, i) ==
  strip(parts[i] \o (IF i + 1 <= Len(parts) THEN parts[i + 1] ELSE <<>>))

\* the test of line 54, also dropping a sentence made of terminators only
Keep_DropBare(sentence) ==
  /\ sentence # <<>>
  /\ \E j \in 1..Len(sentence) : sentence[j] \notin Terminators

Keep(sentence) == sentence # <<>>

RECURSIVE Reassemble(_, _, _)
Reassemble(parts, i, sentences) ==
  IF i > Len(parts) THEN sentences
  ELSE LET sentence == Sentence(parts, i)
       IN  Reassemble(parts, i + 2,
                      IF Keep(sentence) THEN Append(sentences, sentence)
                      ELSE sentences)

Normalize(v) == sub_ws(strip(Str(v)))

instagram_sentence_tokenize(v) ==
  LET text == Normalize(v)
  IN  IF text = <<>> THEN <<>> ELSE Reassemble(split(text), 1, <<>>)

\* ------------------------------------------------------------ preprocess
RequiredCols == {"shortcode", "caption"}
AllCols == RequiredCols \cup {"likes"}
OutKeys == <<"ID", "Context", "Statement", "Sentence ID">>
ErrPrefix == "Input CSV missing required column(s): "

Shortcodes == {"p1", "p2"}
Captions ==
  { StrV(<<>>), StrV(<<"a">>), StrV(<<" ", "\t">>), StrV(<<"!", "!">>),
    StrV(<<"a", ".", " ", "a", "?", "!">>), StrV(<<"a", "\t", "a">>), NaNV }

\* line 65 naming every required column instead of the missing ones
MissingCols_All(cols) == RequiredCols

MissingCols(cols) == RequiredCols \ cols

\* the orders in which iterating a Python set of strings can yield its
\* elements: any, string hashing is seeded per process
RECURSIVE Orders(_)
Orders(S) ==
  IF S = {} THEN {<<>>}
  ELSE UNION { { <<x>> \o o : o \in Orders(S \ {x}) } : x \in S }

\* sep.join(items), as the sequence of the pieces of the resulting string
RECURSIVE join(_, _)
join(sep, items) ==
  IF items = <<>> THEN <<>>
  ELSE IF Len(items) = 1 THEN items
  ELSE <<items[1], sep>> \o join(sep, Tail(items))

\* line 74 with enumerate's default start=0
RowRecords_FromZero(post_id, context, sentences) ==
  [k \in 1..Len(sentences) |->
     [c \in {"ID", "Context", "Statement", "Sentence ID"} |->
        CASE c = "ID" -> post_id
          [] c = "Context" -> context
          [] c = "Statement" -> sentences[k]
          [] OTHER -> k - 1]]

\* line 74-80 keeping a caption without sentences as one placeholder record
RowRecords_Placeholder(post_id, context, sentences) ==
  LET ss == IF sentences = <<>> THEN << <<>> >> ELSE sentences
  IN  [k \in 1..Len(ss) |->
         [c \in {"ID", "Context", "Statement", "Sentence ID"} |->
            CASE c = "ID" -> post_id
              [] c = "Context" -> context
              [] c = "Statement" -> ss[k]
              [] OTHER -> k]]

\* enumerate(..., start=1) over the sentences of one row, one dict each
RowRecords(post_id, context, sentences) ==
  [k \in 1..Len(sentences) |->
     [c \in {"ID", "Context", "Statement", "Sentence ID"} |->
        CASE c = "ID" -> post_id
          [] c = "Context" -> context
          [] c = "Statement" -> sentences[k]
          [] OTHER -> k]]

\* line 75 inserting at the front instead of appending
Extend_Front(list, items) == items \o list

\* records.append(...), once per item
Extend(list, items) == list \o items

\* the columns of pd.DataFrame(records): the keys of the dicts in insertion
\* order, none when the list is empty
FrameColumns(recs) == IF recs = <<>> THEN <<>> ELSE OutKeys

VARIABLES
  input, text, parts, out, pcT,
  columns, rows, idx, records, src, error, frame, pc

vars == <<input, text, parts, out, pcT,
          columns, rows, idx, records, src, error, frame, pc>>
tokVars == <<input, text, parts, out, pcT>>
preVars == <<columns, rows, idx, records, src, error, frame, pc>>

Strings(n) == UNION { [1..m -> Alphabet] : m \in 0..n }
Inputs == { StrV(s) : s \in Strings(MaxLen) } \cup {NoneV}

TokIdle ==
  /\ input = StrV(<<>>) /\ text = <<>> /\ parts = <<>> /\ out = <<>>
  /\ pcT = "idle"

PreIdle ==
  /\ columns = {} /\ rows = <<>> /\ idx = 0 /\ records = <<>> /\ src = <<>>
  /\ error = <<>> /\ frame = <<>> /\ pc = "idle"

\* ---- the tokenizer, one call
InitTok ==
  /\ input \in Inputs
  /\ text = <<>> /\ parts = <<>> /\ out = <<>>
  /\ pcT = "start"
  /\ PreIdle

\* line 43-45
TokNormalize ==
  /\ pcT = "start"
  /\ text' = Normalize(input)
  /\ pcT' = IF text' = <<>> THEN "done" ELSE "normalized"
  /\ UNCHANGED <<input, parts, out>>
  /\ UNCHANGED preVars

\* line 47
TokSplit ==
  /\ pcT = "normalized"
  /\ parts' = split(text)
  /\ pcT' = "split"
  /\ UNCHANGED <<input, text, out>>
  /\ UNCHANGED preVars

\* line 48-56
TokReassemble ==
  /\ pcT = "split"
  /\ out' = Reassemble(parts, 1, <<>>)
  /\ pcT' = "done"
  /\ UNCHANGED <<input, text, parts>>
  /\ UNCHANGED preVars

NextTok == TokNormalize \/ TokSplit \/ TokReassemble

SpecTok == InitTok /\ [][NextTok]_vars

\* ---- preprocess, one call
Rows(cols) ==
  [shortcode : IF "shortcode" \in cols THEN Shortcodes ELSE {"-"},
   caption : IF "caption" \in cols THEN Captions ELSE {AbsentV}]

Init ==
  /\ columns \in SUBSET AllCols
  /\ \E n \in 0..MaxRows : rows \in [1..n -> Rows(columns)]
  /\ idx = 0 /\ records = <<>> /\ src = <<>> /\ error = <<>> /\ frame = <<>>
  /\ pc = "check"
  /\ TokIdle

\* line 63-66: raise ValueError
Raise ==
  /\ pc = "check"
  /\ ~(RequiredCols \subseteq columns)
  /\ \E o \in Orders(MissingCols(columns)) :
       error' = <<ErrPrefix>> \o join(", ", o)
  /\ pc' = "raised"
  /\ UNCHANGED <<columns, rows, idx, records, src, frame>>
  /\ UNCHANGED tokVars

\* line 64, 68, 70: the check passes, rename, records = []
Rename ==
  /\ pc = "check"
  /\ RequiredCols \subseteq columns
  /\ records' = <<>>
  /\ src' = <<>>
  /\ idx' = 1
  /\ pc' = "loop"
  /\ UNCHANGED <<columns, rows, error, frame>>
  /\ UNCHANGED tokVars

\* line 71-80: one iteration of "for _, row in df.iterrows()"
IterRow ==
  /\ pc = "loop"
  /\ idx <= Len(rows)
  /\ LET post_id == rows[idx].shortcode
         context == Str(rows[idx].caption)
         new == RowRecords(post_id, context,
                           instagram_sentence_tokenize(StrV(context)))
     IN  /\ records' = Extend(records, new)
         /\ src' = Extend(src, [k \in 1..Len(new) |-> idx])
  /\ idx' = idx + 1
  /\ UNCHANGED <<columns, rows, error, frame, pc>>
  /\ UNCHANGED tokVars

\* line 82: return pd.DataFrame(records)
Return ==
  /\ pc = "loop"
  /\ idx > Len(rows)
  /\ frame' = FrameColumns(records)
  /\ pc' = "done"
  /\ UNCHANGED <<columns, rows, idx, records, src, error>>
  /\ UNCHANGED tokVars

Next == Raise \/ Rename \/ IterRow \/ Return

Spec == Init /\ [][Next]_vars


\* ================================================================ claims
AllTerm(s) == \A j \in 1..Len(s) : s[j] \in Terminators
Blank(s) == \A j \in 1..Len(s) : s[j] \in Whitespace
NotWs(c) == c \notin Whitespace
NotBare(s) == ~AllTerm(s)

RECURSIVE Concat(_)
Concat(ss) == IF ss = <<>> THEN <<>> ELSE Head(ss) \o Concat(Tail(ss))

\* the text chunks of t that have text, each with the complete terminator run
\* that follows it, trimmed
RECURSIVE ChunksWithRuns(_, _)
ChunksWithRuns(t, chunk) ==
  IF t = <<>> THEN (IF Blank(chunk) THEN <<>> ELSE <<strip(chunk)>>)
  ELSE IF Head(t) \in Terminators
       THEN LET n == RunLen(t)
            IN  (IF Blank(chunk) THEN <<>>
                 ELSE <<strip(chunk \o SubSeq(t, 1, n))>>)
                  \o ChunksWithRuns(SubSeq(t, n + 1, Len(t)), <<>>)
       ELSE ChunksWithRuns(Tail(t), Append(chunk, Head(t)))

\* C1: once tokenize has returned, the sentences that have text are the text
\* chunks of the normalized input, each ending with the complete maximal
\* terminator run that followed it.
C1_CompleteRunAttached ==
  pcT = "done" => SelectSeq(out, NotBare) = ChunksWithRuns(text, <<>>)

\* C2: once tokenize has returned, the concatenation of the sentences has
\* exactly the non-whitespace characters of the normalized input, in order.
C2_ConcatReconstructs ==
  pcT = "done" => SelectSeq(Concat(out), NotWs) = SelectSeq(text, NotWs)

\* C3 as stated: an input made of terminator characters only yields no
\* sentence, and a leading terminator run is never a sentence of its own.
C3_Original ==
  pcT = "done" =>
    /\ (input.kind = "str" /\ AllTerm(input.chars)) => out = <<>>
    /\ (text # <<>> /\ text[1] \in Terminators) =>
          (out = <<>> \/ ~AllTerm(out[1]))

\* C3 amended: a leading terminator run is kept: when the normalized input
\* starts with a terminator, the first sentence is non-empty and made of
\* terminator characters only, and a non-empty input made of terminator
\* characters only yields exactly one such sentence.
C3_LeadingRunKept ==
  pcT = "done" =>
    /\ (text # <<>> /\ text[1] \in Terminators) =>
          (out # <<>> /\ out[1] # <<>> /\ AllTerm(out[1]))
    /\ (input.kind = "str" /\ input.chars # <<>> /\ AllTerm(input.chars)) =>
          Len(out) = 1

C3_Witness ==
  /\ pcT = "done"
  /\ input = StrV(<<"!", "!", "!">>)
  /\ Len(out) = 1 /\ AllTerm(out[1])

\* C4: tokenize returns the empty sequence for the empty string and for an
\* absent (None) input.
C4_AbsentYieldsNothing ==
  (pcT = "done" /\ (input = StrV(<<>>) \/ input.kind = "none")) => out = <<>>

MissingRequired == {c \in {"shortcode", "caption"} : c \notin columns}
NothingProcessed == idx = 0 /\ records = <<>> /\ src = <<>> /\ frame = <<>>

\* C5 as stated: the error names exactly the missing columns, in the order
\* shortcode, caption when both are missing, and nothing was processed.
C5_Original ==
  pc = "raised" =>
    /\ NothingProcessed
    /\ MissingRequired = {"shortcode"} => error = <<ErrPrefix, "shortcode">>
    /\ MissingRequired = {"caption"} => error = <<ErrPrefix, "caption">>
    /\ MissingRequired = {"shortcode", "caption"} =>
          error = <<ErrPrefix, "shortcode", ", ", "caption">>

\* C5 amended: the error names exactly the missing columns, comma-joined, in
\* either order when both are missing, and nothing was processed.
C5_NamesMissing ==
  pc = "raised" =>
    /\ NothingProcessed
    /\ MissingRequired # {}
    /\ MissingRequired = {"shortcode"} => error = <<ErrPrefix, "shortcode">>
    /\ MissingRequired = {"caption"} => error = <<ErrPrefix, "caption">>
    /\ MissingRequired = {"shortcode", "caption"} =>
          error \in { <<ErrPrefix, "shortcode", ", ", "caption">>,
                      <<ErrPrefix, "caption", ", ", "shortcode">> }

C5_Witness ==
  /\ pc = "raised"
  /\ columns = {"likes"}
  /\ Len(rows) > 0
  /\ error = <<ErrPrefix, "caption", ", ", "shortcode">>

\* C6: when preprocess returns, the table has exactly the columns ID, Context,
\* Statement, Sentence ID in that order, also with zero records.
C6_FourColumns ==
  pc = "done" => frame = <<"ID", "Context", "Statement", "Sentence ID">>

\* the positions of the output records that came from input row r, ascending
RECURSIVE PositionsFrom(_, _)
PositionsFrom(r, p) ==
  IF p > Len(src) THEN <<>>
  ELSE (IF src[p] = r THEN <<p>> ELSE <<>>) \o PositionsFrom(r, p + 1)

SentencesOf(r) == instagram_sentence_tokenize(StrV(Str(rows[r].caption)))
Expanded(r) == pc \in {"loop", "done"} /\ r \in 1..Len(rows) /\ r < idx

\* C7: the records of every expanded row carry Sentence ID 1, 2, ..., N in
\* the order of the row's sentences, N being the number of sentences of the
\* row's caption, whatever the other rows and their shortcodes are.
C7_SentenceIdsSequential ==
  \A r \in 1..Len(rows) :
    Expanded(r) =>
      LET ps == PositionsFrom(r, 1)
          ss == SentencesOf(r)
      IN  /\ Len(ps) = Len(ss)
          /\ \A k \in 1..Len(ps) :
               /\ ps[k] <= Len(records)
               /\ records[ps[k]]["Sentence ID"] = k
               /\ records[ps[k]]["Statement"] = ss[k]

C7_Witness ==
  /\ pc = "done"
  /\ Len(rows) = 2
  /\ rows[1].shortcode = rows[2].shortcode
  /\ Len(PositionsFrom(1, 1)) = 2 /\ Len(PositionsFrom(2, 1)) = 2
  /\ records[3]["Sentence ID"] = 1 /\ records[4]["Sentence ID"] = 2

RECURSIVE SentenceCount(_)
SentenceCount(r) ==
  IF r = 0 THEN 0 ELSE Len(SentencesOf(r)) + SentenceCount(r - 1)

\* C8: when preprocess returns, the number of records is the sum over the
\* input rows of the number of sentences of the row's caption, and a row
\* without sentences has no record.
C8_RecordCount ==
  pc = "done" =>
    /\ Len(records) = SentenceCount(Len(rows))
    /\ \A r \in 1..Len(rows) :
         SentencesOf(r) = <<>> =>
           \A p \in 1..Len(records) :
             ~(records[p]["ID"] = rows[r].shortcode
               /\ records[p]["Context"] = Str(rows[r].caption))

C8_Witness ==
  /\ pc = "done"
  /\ Len(rows) = 3
  /\ SentencesOf(1) # <<>> /\ SentencesOf(2) = <<>> /\ Len(SentencesOf(3)) = 2
  /\ Len(records) = Len(SentencesOf(1)) + 2

\* C9: the records are in input row order: a record of an earlier row comes
\* before every record of a later row, the records of one row are adjacent
\* and ascend by Sentence ID, and each record carries its row's ID and
\* caption.
C9_RowOrderPreserved ==
  pc \in {"loop", "done"} =>
    /\ Len(src) = Len(records)
    /\ \A p \in 1..Len(records) :
         /\ src[p] \in 1..Len(rows)
         /\ records[p]["ID"] = rows[src[p]].shortcode
         /\ records[p]["Context"] = Str(rows[src[p]].caption)
    /\ \A p, q \in 1..Len(records) :
         p < q =>
           /\ src[p] <= src[q]
           /\ src[p] = src[q] =>
                records[p]["Sentence ID"] < records[q]["Sentence ID"]

C9_Witness ==
  /\ pc = "done"
  /\ Len(rows) = 3
  /\ Len(records) >= 4
  /\ src[1] = 1 /\ src[2] = 1 /\ src[Len(src)] = 3
  /\ rows[1].caption # rows[3].caption

\* C10: every sentence tokenize returns is non-empty and neither starts nor
\* ends with a whitespace character.
C10_SentencesTrimmed ==
  \A k \in 1..Len(out) :
    /\ out[k] # <<>>
    /\ out[k][1] \notin Whitespace
    /\ out[k][Len(out[k])] \notin Whitespace

C10_Witness ==
  /\ pcT = "done"
  /\ Len(parts) >= 3
  /\ parts[3] # <<>> /\ parts[3][1] \in Whitespace
  /\ Len(out) = 2

====
